---- MODULE Spec2Model ----
(***************************************************************************)
(* A model of the daily reconciliation pipeline of scripts/:               *)
(*   01_ingest.py  ->  02_match.py  ->  03_rules.py  ->  04_aggregate.py   *)
(* driven by run_daily_pipeline.py.  The state is the file system the      *)
(* stages communicate through (clean per-day files, the fact table, the    *)
(* four Power BI views) and the position of the orchestrator.              *)
(*                                                                         *)
(* Conventions.  Strings are TLA+ strings and are processed character by   *)
(* character.  TLA+ strings are ASCII, so the en dash U+2013 is written    *)
(* "~" and the em dash U+2014 is written "^".  A missing string cell       *)
(* (pandas <NA>/None/NaN) is NA.  A missing number or timestamp is the     *)
(* empty tuple; a present one is <<n>>.  Timestamps and ages are counted   *)
(* in ticks, TicksPerDay ticks to the day.  Money is counted in cents and  *)
(* compared exactly (the model has no floating point rounding).            *)
(***************************************************************************)
EXTENDS Integers, Sequences, FiniteSets, TLC

(***************************************************************************)
(* Characters and strings                                                  *)
(***************************************************************************)
NA == "<NA>"
NaT == << >>
NaN == << >>

EN_DASH == "~"
EM_DASH == "^"

UpperChars == "ABCDEFGHIJKLMNOPQRSTUVWXYZ"
LowerChars == "abcdefghijklmnopqrstuvwxyz"
DigitChars == "0123456789"
\* The characters of the model in ASCII order (the dashes stand-ins last).
Alphabet == " -." \o DigitChars \o "/:<>" \o UpperChars \o "_" \o LowerChars \o "~^"

CharAt(s, i) == SubSeq(s, i, i)

RECURSIVE IndexFrom(_, _, _)
IndexFrom(s, c, i) ==
    IF i > Len(s) THEN 0
    ELSE IF CharAt(s, i) = c THEN i
    ELSE IndexFrom(s, c, i + 1)

\* Position of character c in s, 0 when absent.
IndexOf(s, c) == IndexFrom(s, c, 1)

Ord(c) == IndexOf(Alphabet, c)

IsSpace(c) == c = " "

\* str.__lt__: lexicographic order by code point.
RECURSIVE StrLess(_, _)
StrLess(a, b) ==
    IF Len(b) = 0 THEN FALSE
    ELSE IF Len(a) = 0 THEN TRUE
    ELSE IF Head(a) = Head(b) THEN StrLess(Tail(a), Tail(b))
    ELSE Ord(Head(a)) < Ord(Head(b))

\* sorted(S) for a set of strings.
RECURSIVE Sorted(_)
Sorted(S) ==
    IF S = {} THEN << >>
    ELSE LET m == CHOOSE x \in S : \A y \in S : ~StrLess(y, x)
         IN  <<m>> \o Sorted(S \ {m})

RECURSIVE LStrip(_)
LStrip(s) == IF Len(s) > 0 /\ IsSpace(Head(s)) THEN LStrip(Tail(s)) ELSE s

RECURSIVE RStrip(_)
RStrip(s) ==
    IF Len(s) > 0 /\ IsSpace(CharAt(s, Len(s)))
    THEN RStrip(SubSeq(s, 1, Len(s) - 1))
    ELSE s

\* str.strip()
Strip(s) == RStrip(LStrip(s))

\* str.replace(old, new) for a single character old.
RECURSIVE ReplaceChar(_, _, _)
ReplaceChar(s, old, new) ==
    IF Len(s) = 0 THEN ""
    ELSE (IF Head(s) = old THEN new ELSE Head(s)) \o ReplaceChar(Tail(s), old, new)

\* re.sub(r"\s+", " ", s): every run of white space becomes one blank.
RECURSIVE CollapseSpaces(_)
CollapseSpaces(s) ==
    IF Len(s) = 0 THEN ""
    ELSE IF IsSpace(Head(s))
         THEN " " \o CollapseSpaces(LStrip(s))
         ELSE Head(s) \o CollapseSpaces(Tail(s))

LowerChar(c) ==
    LET i == IndexOf(UpperChars, c) IN IF i = 0 THEN c ELSE CharAt(LowerChars, i)

\* str.lower()
RECURSIVE Lower(_)
Lower(s) == IF Len(s) = 0 THEN "" ELSE LowerChar(Head(s)) \o Lower(Tail(s))

IsDigit(c) == IndexOf(DigitChars, c) > 0
DigitVal(c) == IndexOf(DigitChars, c) - 1

RECURSIVE AllDigits(_)
AllDigits(s) == Len(s) = 0 \/ (IsDigit(Head(s)) /\ AllDigits(Tail(s)))

\* int(s) for a string of decimal digits.
RECURSIVE DigitsVal(_)
DigitsVal(s) ==
    IF Len(s) = 0 THEN 0
    ELSE 10 * DigitsVal(SubSeq(s, 1, Len(s) - 1)) + DigitVal(CharAt(s, Len(s)))

(***************************************************************************)
(* Flag cells.  A flag column holds True3 or False3 and, where pandas      *)
(* gives it the nullable "boolean" dtype, possibly NA3.                    *)
(***************************************************************************)
True3 == "True"
False3 == "False"
NA3 == "<NA>"

Bool3(b) == IF b THEN True3 ELSE False3

(***************************************************************************)
(* Conversions                                                             *)
(***************************************************************************)
\* Days of the proleptic Gregorian calendar since 1970-01-01.
DaysFromCivil(y0, m, d) ==
    LET y   == IF m <= 2 THEN y0 - 1 ELSE y0
        era == y \div 400
        yoe == y - era * 400
        mp  == IF m > 2 THEN m - 3 ELSE m + 9
        doy == (153 * mp + 2) \div 5 + d - 1
        doe == yoe * 365 + yoe \div 4 - yoe \div 100 + doy
    IN  era * 146097 + doe - 719468

IsLeap(y) == (y % 4 = 0 /\ y % 100 # 0) \/ y % 400 = 0

DaysInMonth(y, m) ==
    IF m = 2 THEN (IF IsLeap(y) THEN 29 ELSE 28)
    ELSE IF m \in {4, 6, 9, 11} THEN 30 ELSE 31

\* Resolution of the clock of the model: ticks in one day.
TicksPerDay == 2

\* pd.to_datetime(s, errors="coerce") for a "YYYY-MM-DD" string: midnight of
\* that day in ticks, NaT when the string names no calendar day.
ToDatetimeDate(s) ==
    IF s = NA \/ Len(s) # 10 \/ CharAt(s, 5) # "-" \/ CharAt(s, 8) # "-"
       \/ ~AllDigits(SubSeq(s, 1, 4)) \/ ~AllDigits(SubSeq(s, 6, 7))
       \/ ~AllDigits(SubSeq(s, 9, 10))
    THEN NaT
    ELSE LET y == DigitsVal(SubSeq(s, 1, 4))
             m == DigitsVal(SubSeq(s, 6, 7))
             d == DigitsVal(SubSeq(s, 9, 10))
         IN  IF y < 1 \/ m < 1 \/ m > 12 \/ d < 1 \/ d > DaysInMonth(y, m)
             THEN NaT
             ELSE <<DaysFromCivil(y, m, d) * TicksPerDay>>

\* pd.to_numeric(s, errors="coerce") in cents, for decimal strings with at
\* most two decimals; anything else is NaN.
ToNumeric(s) ==
    LET dot == IndexOf(s, ".")
        ip  == IF dot = 0 THEN s ELSE SubSeq(s, 1, dot - 1)
        fp  == IF dot = 0 THEN "" ELSE SubSeq(s, dot + 1, Len(s))
    IN  IF s = NA \/ Len(ip) = 0 \/ ~AllDigits(ip) \/ ~AllDigits(fp) \/ Len(fp) > 2
        THEN NaN
        ELSE <<100 * DigitsVal(ip)
               + (IF Len(fp) = 1 THEN 10 * DigitsVal(fp) ELSE DigitsVal(fp))>>

Abs(n) == IF n < 0 THEN -n ELSE n

(***************************************************************************)
(* config.py                                                               *)
(***************************************************************************)
JOIN_KEYS == <<"cart_id">>

STATUSES == {"In Preparation", "In PO Creation", "Completed", "Cancelled"}

SUBSTATUSES_BY_STATUS(st) ==
    CASE st = "In Preparation" -> {"Preparing", "On Hold"}
      [] st = "In PO Creation" -> {"Creating", "Error", "On Hold"}
      [] st = "Completed" ->
             {"Provider PO Assigned", "Missing PO Copy", "Unequal Values", "Error"}
      [] st = "Cancelled" ->
             {"Cancelled ~ Synchronized", "Cancelled ~ Unsynchronized"}

HOLD_PREPARATION_DAYS == 30
HOLD_PO_CREATION_DAYS == 4
STUCK_IN_ERROR_DAYS == 4

\* VALUE_MISMATCH_ABS_TOLERANCE = 0.01, in cents.
VALUE_MISMATCH_ABS_TOLERANCE == 1

STEPS == <<"01_ingest.py", "02_match.py", "03_rules.py", "04_aggregate.py">>

ViewNames == {"PBI_DAILY_KPIS", "PBI_STATUS_DISTRIBUTION", "PBI_AGING_BUCKETS",
              "PBI_ISSUE_CASES"}

(***************************************************************************)
(* Files.  A clean per-day file is absent, unreadable, or a table: the     *)
(* set of its columns and its records in file order.  A record has every   *)
(* field; a field whose column the file lacks is empty.                    *)
(***************************************************************************)
Sources == {"a", "b"}

NoFile == [kind |-> "none", cols |-> {}, recs |-> << >>]
BadFile == [kind |-> "bad", cols |-> {}, recs |-> << >>]
DataFile(cols, recs) == [kind |-> "data", cols |-> cols, recs |-> recs]

NullRec ==
    [cart_id |-> NA, status |-> NA, substatus |-> NA, updated_at |-> NaT,
     total_value |-> NA]

\* pd.DataFrame(columns=list(JOIN_KEYS)): the frame of an absent side.
EmptyFrame == DataFile({"cart_id"}, << >>)

RECURSIVE Flatten(_)
Flatten(ss) == IF ss = << >> THEN << >> ELSE Head(ss) \o Flatten(Tail(ss))

(***************************************************************************)
(* 02_match.py                                                             *)
(***************************************************************************)
\* Reading a file that is not a parquet table raises.
_read_parquet_raises(file) == file.kind = "bad"

\* A Matcher that joins on the keys as they come.
_coerce_join_keys_skipped(df) == df

_coerce_join_keys(df) ==
    [df EXCEPT !.recs =
        [i \in 1..Len(df.recs) |->
            [df.recs[i] EXCEPT !.cart_id = Strip(df.recs[i].cart_id)]]]

\* |a - b| > tol on the numeric readings; a comparison with NaN is False.
_value_mismatch(a, b, tol) ==
    LET a_num == ToNumeric(a)
        b_num == ToNumeric(b)
    IN  a_num # NaN /\ b_num # NaN /\ Abs(a_num[1] - b_num[1]) > tol

fillna(v, d) == IF v = NA THEN d ELSE v

\* A comparison that forgets the existence guard.
text_mismatch_unguarded(exists_in_a, exists_in_b, sa, sb) ==
    fillna(sa, "") # fillna(sb, "")

\* exists_in_a & exists_in_b & (sa.fillna("") != sb.fillna(""))
text_mismatch(exists_in_a, exists_in_b, sa, sb) ==
    exists_in_a /\ exists_in_b /\ fillna(sa, "") # fillna(sb, "")

\* One row of the outer join: the fields of both sides under their suffixed
\* names, the join provenance, and the mismatch flags of lines 95-119.
FactRow(date_str, key, a, b, in_a, in_b, a_cols, b_cols) ==
    LET exists_in_a == in_a
        exists_in_b == in_b
        status_mismatch ==
            IF "status" \in a_cols /\ "status" \in b_cols
            THEN text_mismatch(exists_in_a, exists_in_b, a.status, b.status)
            ELSE FALSE
        substatus_mismatch ==
            IF "substatus" \in a_cols /\ "substatus" \in b_cols
            THEN text_mismatch(exists_in_a, exists_in_b, a.substatus, b.substatus)
            ELSE FALSE
        value_mismatch ==
            IF "total_value" \in a_cols /\ "total_value" \in b_cols
            THEN exists_in_a /\ exists_in_b
                 /\ _value_mismatch(a.total_value, b.total_value,
                                    VALUE_MISMATCH_ABS_TOLERANCE)
            ELSE FALSE
    IN  [cart_id |-> key,
         snapshot_date |-> date_str,
         status_a |-> a.status, substatus_a |-> a.substatus,
         updated_at_a |-> a.updated_at, total_value_a |-> a.total_value,
         status_b |-> b.status, substatus_b |-> b.substatus,
         updated_at_b |-> b.updated_at, total_value_b |-> b.total_value,
         exists_in_a |-> Bool3(exists_in_a),
         exists_in_b |-> Bool3(exists_in_b),
         status_mismatch |-> Bool3(status_mismatch),
         substatus_mismatch |-> Bool3(substatus_mismatch),
         value_mismatch |-> Bool3(value_mismatch),
         any_mismatch |->
             Bool3(status_mismatch \/ substatus_mismatch \/ value_mismatch)]

WithKey(recs, key) == SelectSeq(recs, LAMBDA r : r.cart_id = key)

\* a_df.merge(b_df, how="outer", on=JOIN_KEYS, indicator=True) for one key:
\* every pairing of the key's records, A-major, or the records of the only
\* side that has the key.
MergeKey(date_str, key, a_df, b_df) ==
    LET as == WithKey(a_df.recs, key)
        bs == WithKey(b_df.recs, key)
    IN  IF bs = << >>
        THEN [i \in 1..Len(as) |->
                 FactRow(date_str, key, as[i], NullRec, TRUE, FALSE,
                         a_df.cols, b_df.cols)]
        ELSE IF as = << >>
        THEN [j \in 1..Len(bs) |->
                 FactRow(date_str, key, NullRec, bs[j], FALSE, TRUE,
                         a_df.cols, b_df.cols)]
        ELSE [n \in 1..(Len(as) * Len(bs)) |->
                 FactRow(date_str, key,
                         as[((n - 1) \div Len(bs)) + 1],
                         bs[((n - 1) % Len(bs)) + 1],
                         TRUE, TRUE, a_df.cols, b_df.cols)]

KeysOf(df) == {df.recs[i].cart_id : i \in 1..Len(df.recs)}

\* The rows match_one_day returns when neither file is unreadable.  An outer
\* merge orders its rows by key.
match_one_day(date_str, a_file, b_file) ==
    LET a_df == _coerce_join_keys(IF a_file.kind = "none" THEN EmptyFrame ELSE a_file)
        b_df == _coerce_join_keys(IF b_file.kind = "none" THEN EmptyFrame ELSE b_file)
        keys == Sorted(KeysOf(a_df) \cup KeysOf(b_df))
    IN  Flatten([i \in 1..Len(keys) |-> MergeKey(date_str, keys[i], a_df, b_df)])

\* drop_duplicates(..., keep="first")
drop_duplicates_keep_first(rows) ==
    LET kept(i) == \A j \in 1..(i - 1) :
                       ~(rows[j].snapshot_date = rows[i].snapshot_date
                         /\ rows[j].cart_id = rows[i].cart_id)
        idx == {i \in 1..Len(rows) : kept(i)}
        RECURSIVE Pick(_)
        Pick(i) == IF i > Len(rows) THEN << >>
                   ELSE (IF i \in idx THEN <<rows[i]>> ELSE << >>) \o Pick(i + 1)
    IN  Pick(1)

\* drop_duplicates(..., keep=False): every row of a repeated pair is dropped.
drop_duplicates_keep_none(rows) ==
    SelectSeq(rows, LAMBDA r :
        Cardinality({j \in 1..Len(rows) :
                        /\ rows[j].snapshot_date = r.snapshot_date
                        /\ rows[j].cart_id = r.cart_id}) = 1)

\* drop_duplicates(subset=["snapshot_date", *JOIN_KEYS], keep="last")
drop_duplicates(rows) ==
    LET kept(i) == \A j \in (i + 1)..Len(rows) :
                       ~(rows[j].snapshot_date = rows[i].snapshot_date
                         /\ rows[j].cart_id = rows[i].cart_id)
        idx == {i \in 1..Len(rows) : kept(i)}
        RECURSIVE Pick(_)
        Pick(i) == IF i > Len(rows) THEN << >>
                   ELSE (IF i \in idx THEN <<rows[i]>> ELSE << >>) \o Pick(i + 1)
    IN  Pick(1)

(***************************************************************************)
(* 03_rules.py                                                             *)
(* A comparison of a nullable string column with a literal is three-valued *)
(* (pandas "boolean" dtype) and combines by Kleene's &.  Comparisons of    *)
(* numbers and of numpy bools are two-valued.                              *)
(***************************************************************************)
Eq3(s, lit) == IF s = NA THEN NA3 ELSE Bool3(s = lit)

And3(x, y) ==
    IF x = False3 \/ y = False3 THEN False3
    ELSE IF x = True3 /\ y = True3 THEN True3
    ELSE NA3

_norm_str(s) ==
    IF s = NA THEN NA
    ELSE Lower(CollapseSpaces(
             ReplaceChar(ReplaceChar(Strip(s), EN_DASH, "-"), EM_DASH, "-")))

\* strip, dashes, " ".join(s.split()), lower: None for a missing value.
_norm_one(x) ==
    IF x = NA THEN NA
    ELSE Lower(Strip(CollapseSpaces(
             ReplaceChar(ReplaceChar(Strip(x), EN_DASH, "-"), EM_DASH, "-"))))

\* An age that prefers B's timestamp.
compute_age_days_b_first(row) ==
    LET upd  == IF row.updated_at_b = NaT THEN row.updated_at_a ELSE row.updated_at_b
        snap == ToDatetimeDate(row.snapshot_date)
    IN  IF snap = NaT \/ upd = NaT THEN NaN ELSE <<snap[1] - upd[1]>>

\* upd_a.fillna(upd_b), then snapshot midnight minus it; in ticks.
compute_age_days(row) ==
    LET upd_a == row.updated_at_a
        upd_b == row.updated_at_b
        upd   == IF upd_a = NaT THEN upd_b ELSE upd_a
        snap  == ToDatetimeDate(row.snapshot_date)
    IN  IF snap = NaT \/ upd = NaT THEN NaN ELSE <<snap[1] - upd[1]>>

\* A threshold that an age equal to it already passes.
AgeGe(age, days) == age # NaN /\ age[1] >= days * TicksPerDay

\* age_days > float(days); False for an undefined age.
AgeGt(age, days) == age # NaN /\ age[1] > days * TicksPerDay

\* The reference vocabulary, normalized as lines 69-77 normalize it.
statuses_norm == {_norm_one(s) : s \in STATUSES} \ {NA, ""}

sub_by_status_norm ==
    [kn \in {_norm_one(k) : k \in STATUSES} \ {NA, ""} |->
        UNION {{_norm_one(v) : v \in SUBSTATUSES_BY_STATUS(k)} \ {NA, ""} :
               k \in {k2 \in STATUSES : _norm_one(k2) = kn}}]

unknown_status_substatus(row) ==
    LET status == _norm_str(row.status_a)
        sub    == _norm_str(row.substatus_a)
        known_status   == status \in statuses_norm
        unknown_status == ~known_status /\ status # NA
        allowed == IF status # NA /\ status \in DOMAIN sub_by_status_norm
                   THEN sub_by_status_norm[status] ELSE {}
        bad_sub == IF status = NA \/ sub = NA THEN FALSE ELSE sub \notin allowed
    IN  unknown_status \/ bad_sub

hard_issue_cols ==
    <<"inprep_on_hold_gt_30d", "inpo_on_hold_gt_4d", "inpo_error_stuck_gt_4d",
      "completed_missing_po_copy", "completed_unequal_values",
      "cancelled_unsynchronized">>

warning_cols_core ==
    <<"cancelled_synchronized", "unknown_status_or_substatus", "status_mismatch",
      "substatus_mismatch", "value_mismatch">>

DerivedCols ==
    {"age_days", "cancelled_synchronized", "unknown_status_or_substatus",
     "hard_issue", "warning", "has_issue"}
    \cup {hard_issue_cols[i] : i \in 1..Len(hard_issue_cols)}

\* A cell counts in DataFrame.any(axis=1) when it is True; <NA> is skipped.
IsTrueCell(v) == v = True3

\* An any(axis=1) that counts <NA> as set (skipna=False).
AnyNotFalse(cells) == \E i \in 1..Len(cells) : cells[i] # False3

\* df[cols].any(axis=1) for one row.
AnyTrue(cells) == \E i \in 1..Len(cells) : IsTrueCell(cells[i])

\* A core_any over every flag column the loaded table has, the roll-up of
\* an earlier run included.
core_any_all_flags(row, cancelled_synchronized, unknown_status_or_substatus) ==
    AnyTrue(<<cancelled_synchronized, unknown_status_or_substatus,
              row.status_mismatch, row.substatus_mismatch, row.value_mismatch,
              IF "has_issue" \in DOMAIN row THEN row.has_issue ELSE False3>>)

\* df.reindex(columns=warning_cols_core, fill_value=False).any(axis=1): the
\* two columns just assigned and the three mismatch columns of the Matcher.
core_any(row, cancelled_synchronized, unknown_status_or_substatus) ==
    AnyTrue(<<cancelled_synchronized, unknown_status_or_substatus,
              row.status_mismatch, row.substatus_mismatch, row.value_mismatch>>)

\* A warning that forgets the rows one source lacks.
warning_both_only(missing_one_side, both_exist, core) == both_exist /\ core

\* df["warning"] = missing_one_side | (both_exist & core_any)
warning_flag(missing_one_side, both_exist, core) ==
    missing_one_side \/ (both_exist /\ core)

\* The columns lines 110-169 assign, for one row of the loaded table.
RuleColumns(row) ==
    LET status_a == _norm_str(row.status_a)
        sub_a    == _norm_str(row.substatus_a)
        age_days == compute_age_days(row)
        inprep_on_hold_gt_30d ==
            And3(And3(Eq3(status_a, "in preparation"), Eq3(sub_a, "on hold")),
                 Bool3(AgeGt(age_days, HOLD_PREPARATION_DAYS)))
        inpo_on_hold_gt_4d ==
            And3(And3(Eq3(status_a, "in po creation"), Eq3(sub_a, "on hold")),
                 Bool3(AgeGt(age_days, HOLD_PO_CREATION_DAYS)))
        inpo_error_stuck_gt_4d ==
            And3(And3(Eq3(status_a, "in po creation"), Eq3(sub_a, "error")),
                 Bool3(AgeGt(age_days, STUCK_IN_ERROR_DAYS)))
        completed_missing_po_copy ==
            And3(Eq3(status_a, "completed"), Eq3(sub_a, "missing po copy"))
        completed_unequal_values ==
            And3(Eq3(status_a, "completed"), Eq3(sub_a, "unequal values"))
        cancelled_unsynchronized ==
            And3(And3(Eq3(status_a, "cancelled"),
                      Eq3(sub_a, "cancelled - unsynchronized")),
                 Bool3(row.exists_in_b = False3))
        cancelled_synchronized ==
            And3(And3(Eq3(status_a, "cancelled"),
                      Eq3(sub_a, "cancelled - synchronized")),
                 Bool3(row.exists_in_b = True3))
        unknown_status_or_substatus == unknown_status_substatus(row)
        hard_issue ==
            AnyTrue(<<inprep_on_hold_gt_30d, inpo_on_hold_gt_4d,
                      inpo_error_stuck_gt_4d, completed_missing_po_copy,
                      completed_unequal_values, cancelled_unsynchronized>>)
        exists_a == row.exists_in_a = True3
        exists_b == row.exists_in_b = True3
        both_exist == exists_a /\ exists_b
        missing_one_side == exists_a # exists_b
        warning ==
            warning_flag(missing_one_side, both_exist,
                         core_any(row, cancelled_synchronized,
                                  Bool3(unknown_status_or_substatus)))
    IN  [age_days |-> age_days,
         inprep_on_hold_gt_30d |-> inprep_on_hold_gt_30d,
         inpo_on_hold_gt_4d |-> inpo_on_hold_gt_4d,
         inpo_error_stuck_gt_4d |-> inpo_error_stuck_gt_4d,
         completed_missing_po_copy |-> completed_missing_po_copy,
         completed_unequal_values |-> completed_unequal_values,
         cancelled_unsynchronized |-> cancelled_unsynchronized,
         cancelled_synchronized |-> cancelled_synchronized,
         unknown_status_or_substatus |-> Bool3(unknown_status_or_substatus),
         hard_issue |-> Bool3(hard_issue),
         warning |-> Bool3(warning),
         has_issue |-> Bool3(hard_issue \/ warning)]

\* df[c] = ... for each derived column: a column already there is
\* overwritten in place, a new one is added; the other cells are kept.
AssignColumns(row, new) ==
    [c \in (DOMAIN row) \cup (DOMAIN new) |->
        IF c \in DOMAIN new THEN new[c] ELSE row[c]]

apply_rules(rows) ==
    [i \in 1..Len(rows) |-> AssignColumns(rows[i], RuleColumns(rows[i]))]

(***************************************************************************)
(* The fact table file: absent, damaged (a write that did not complete),   *)
(* or a table.  rule_cols tells whether the table has the columns the      *)
(* Rule Engine adds.                                                       *)
(***************************************************************************)
NoFact == [kind |-> "none", rule_cols |-> FALSE, rows |-> << >>]
DamagedFact == [kind |-> "damaged", rule_cols |-> FALSE, rows |-> << >>]
FactTable(rule_cols, rows) == [kind |-> "data", rule_cols |-> rule_cols, rows |-> rows]

NoView == [kind |-> "none"]
ViewFile(rows) == [kind |-> "data", rows |-> rows]

(***************************************************************************)
(* 04_aggregate.py                                                         *)
(***************************************************************************)
Count(rows, P(_)) == Cardinality({i \in 1..Len(rows) : P(rows[i])})

\* x.fillna(False).astype(bool) of a flag cell.
AsBool(v) == v = True3

\* A ratio with no guard for an empty denominator.
Rate_unguarded(n, d) == <<n, d>>

\* n / d if d else 0.0, kept as the fraction <<numerator, denominator>>.
Rate(n, d) == IF d # 0 THEN <<n, d>> ELSE <<0, 1>>

DatesOf(rows) == {rows[i].snapshot_date : i \in 1..Len(rows)}

build_daily_kpis(df) ==
    LET dates == Sorted(DatesOf(df.rows))
        kpi(d) ==
            LET g == SelectSeq(df.rows, LAMBDA r : r.snapshot_date = d)
                rows == Len(g)
                orders_a == Count(g, LAMBDA r : AsBool(r.exists_in_a))
                orders_b == Count(g, LAMBDA r : AsBool(r.exists_in_b))
                missing_in_b ==
                    Count(g, LAMBDA r : r.exists_in_a = True3 /\ r.exists_in_b = False3)
                missing_in_a ==
                    Count(g, LAMBDA r : r.exists_in_a = False3 /\ r.exists_in_b = True3)
                any_mismatch == Count(g, LAMBDA r : AsBool(r.any_mismatch))
                hard_issue ==
                    IF df.rule_cols THEN Count(g, LAMBDA r : AsBool(r.hard_issue)) ELSE 0
                warning ==
                    IF df.rule_cols THEN Count(g, LAMBDA r : AsBool(r.warning)) ELSE 0
                has_issue ==
                    IF df.rule_cols THEN Count(g, LAMBDA r : AsBool(r.has_issue)) ELSE 0
            IN  [snapshot_date |-> d, rows |-> rows,
                 orders_a |-> orders_a, orders_b |-> orders_b,
                 missing_in_b |-> missing_in_b, missing_in_a |-> missing_in_a,
                 any_mismatch |-> any_mismatch, hard_issue |-> hard_issue,
                 warning |-> warning, has_issue |-> has_issue,
                 issue_rate |-> Rate(has_issue, rows),
                 hard_issue_rate |-> Rate(hard_issue, rows),
                 warning_rate |-> Rate(warning, rows),
                 mismatch_rate |-> Rate(any_mismatch, rows),
                 missing_in_b_rate |-> Rate(missing_in_b, orders_a)]
    IN  [i \in 1..Len(dates) |-> kpi(dates[i])]

\* The groups of a groupby(..., dropna=False).size(), as a set of rows.
build_status_distribution(df) ==
    LET key(r) == <<r.snapshot_date, r.status_a, r.substatus_a>>
        keys == {key(df.rows[i]) : i \in 1..Len(df.rows)}
    IN  {[snapshot_date |-> k[1], status |-> k[2], substatus |-> k[3],
          count |-> Count(df.rows, LAMBDA r : key(r) = k)] : k \in keys}

\* pd.cut(age.fillna(-1), bins=[-1e9, 1, 4, 30, 1e9]): right-closed bins.
age_bucket(age) ==
    LET t == IF age = NaN THEN -1 * TicksPerDay ELSE age[1]
    IN  IF t <= 1 * TicksPerDay THEN "0-1d"
        ELSE IF t <= 4 * TicksPerDay THEN "1-4d"
        ELSE IF t <= 30 * TicksPerDay THEN "4-30d"
        ELSE ">30d"

\* The observed groups of the aging histogram.
build_aging_buckets(df) ==
    IF ~df.rule_cols THEN {}
    ELSE LET key(r) == <<r.snapshot_date, r.status_a, r.substatus_a,
                         age_bucket(r.age_days)>>
             keys == {key(df.rows[i]) : i \in 1..Len(df.rows)}
         IN  {[snapshot_date |-> k[1], status |-> k[2], substatus |-> k[3],
               age_bucket |-> k[4],
               count |-> Count(df.rows, LAMBDA r : key(r) = k)] : k \in keys}

reason_cols ==
    <<"inprep_on_hold_gt_30d", "inpo_on_hold_gt_4d", "inpo_error_stuck_gt_4d",
      "completed_missing_po_copy", "completed_unequal_values",
      "cancelled_unsynchronized", "cancelled_synchronized",
      "unknown_status_or_substatus", "status_mismatch", "substatus_mismatch",
      "value_mismatch">>

\* An _is_true that takes a missing cell for a set one.
_is_true_or_missing(v) == v # False3

\* _is_true of a cell after fillna(False): True, or a truthy value.
_is_true(v) == v = True3
_is_false(v) == v = False3

\* ",".join(parts)
RECURSIVE JoinComma(_)
JoinComma(parts) ==
    IF parts = << >> THEN ""
    ELSE IF Len(parts) = 1 THEN parts[1]
    ELSE parts[1] \o "," \o JoinComma(Tail(parts))

\* A reasons field of the flags alone, without the token of the missing side.
build_reason_flags_only(row) ==
    JoinComma(SelectSeq(SelectSeq(reason_cols, LAMBDA c : c \in DOMAIN row),
                        LAMBDA c : _is_true(row[c])))

build_reason(row) ==
    LET present == SelectSeq(reason_cols, LAMBDA c : c \in DOMAIN row)
        parts == SelectSeq(present, LAMBDA c : _is_true(row[c]))
        exists_a == row.exists_in_a
        exists_b == row.exists_in_b
    IN  JoinComma(
            parts
            \o (IF _is_true(exists_a) /\ _is_false(exists_b)
                THEN <<"missing_in_b">> ELSE << >>)
            \o (IF _is_true(exists_b) /\ _is_false(exists_a)
                THEN <<"missing_in_a">> ELSE << >>))

\* The columns of a case: keep, without the columns the table lacks.
keep ==
    {"snapshot_date", "case_type", "cart_id", "status_a", "substatus_a",
     "status_b", "substatus_b", "age_days", "exists_in_a", "exists_in_b",
     "hard_issue", "warning", "has_issue", "any_mismatch", "reasons",
     "source_file_a", "source_file_b"}

build_issue_cases(df) ==
    LET cond(r) ==
            (df.rule_cols /\ AsBool(r.has_issue))
            \/ AsBool(r.any_mismatch)
            \/ (r.exists_in_a = True3 /\ r.exists_in_b = False3)
            \/ (r.exists_in_a = False3 /\ r.exists_in_b = True3)
        issues == SelectSeq(df.rows, cond)
        case(r) ==
            AssignColumns(r,
                [case_type |-> IF df.rule_cols /\ AsBool(r.hard_issue)
                               THEN "hard" ELSE "warning",
                 reasons |-> build_reason(r)])
    IN  [i \in 1..Len(issues) |->
            [c \in (DOMAIN case(issues[i])) \cap keep |-> case(issues[i])[c]]]

\* The view each of the four writes of main puts on disk, in write order.
ViewOrder == <<"PBI_DAILY_KPIS", "PBI_STATUS_DISTRIBUTION", "PBI_AGING_BUCKETS",
               "PBI_ISSUE_CASES">>

BuildView(name, df) ==
    CASE name = "PBI_DAILY_KPIS" -> ViewFile(build_daily_kpis(df))
      [] name = "PBI_STATUS_DISTRIBUTION" -> ViewFile(build_status_distribution(df))
      [] name = "PBI_AGING_BUCKETS" -> ViewFile(build_aging_buckets(df))
      [] name = "PBI_ISSUE_CASES" -> ViewFile(build_issue_cases(df))

(***************************************************************************)
(* 01_ingest.py                                                            *)
(***************************************************************************)
REQUIRED_COLUMNS_A == {"cart_id", "status", "substatus", "updated_at"}
REQUIRED_COLUMNS_B == {"cart_id", "updated_at"}

\* clean_one_file raises: the dump cannot be read or lacks a required column.
clean_one_file_raises(raw_file, source) ==
    \/ raw_file.kind = "bad"
    \/ ~((IF source = "a" THEN REQUIRED_COLUMNS_A ELSE REQUIRED_COLUMNS_B)
            \subseteq raw_file.cols)

\* The table clean_one_file returns: the business key trimmed.
clean_one_file(raw_file) == _coerce_join_keys(raw_file)

(***************************************************************************)
(* State                                                                   *)
(***************************************************************************)
VARIABLES
    clean,     \* clean[<<source, date>>]: the file clean_<source>_<date>.parquet
    fact,      \* the file fact_orders.parquet
    views,     \* views[name]: each of the four Power BI CSV files
    last,      \* the last stage that ran and its exit status
    pre,       \* clean, fact and views as they were when that stage started
    pipeline,  \* the orchestrator: "idle", "running", "success" or "failed"
    pc,        \* the index in STEPS of the step the orchestrator runs next
    started,   \* the steps the current pipeline run has run, with exit status
    runs       \* number of pipeline runs started

vars == <<clean, fact, views, last, pre, pipeline, pc, started, runs>>
orch == <<pipeline, pc, started, runs>>

\* The snapshot dates file names carry in the model; the last names no day.
D1 == "2024-01-10"
D2 == "2024-01-11"
D3 == "2024-02-30"
DateNames == {D1, D2, D3}
Slots == Sources \X DateNames

Stage(name, rc) ==
    /\ last' = [stage |-> name, rc |-> rc]
    /\ pre' = [clean |-> clean, fact |-> fact, views |-> views]

\* ingest_folder for both sources, over the raw dumps the folders hold.
\* A file that raises is logged and skipped; main returns 0.
IngestMain(force, raw) ==
    /\ clean' = [sl \in Slots |->
                    IF raw[sl].kind = "none" \/ clean_one_file_raises(raw[sl], sl[1])
                    THEN clean[sl]
                    ELSE IF clean[sl].kind # "none" /\ ~force
                    THEN clean[sl]
                    ELSE clean_one_file(raw[sl])]
    /\ UNCHANGED <<fact, views>>
    /\ Stage("01_ingest.py", 0)

\* dates = sorted(set(a_by_date) | set(b_by_date))
MatchDates == Sorted({d \in DateNames : \E s \in Sources : clean[<<s, d>>].kind # "none"})

\* match_one_day raises on a date with an unreadable file; nothing in main
\* catches it.
MatchRaises ==
    \E i \in 1..Len(MatchDates), s \in Sources :
        _read_parquet_raises(clean[<<s, MatchDates[i]>>])

\* parts, concatenated.
MatchParts ==
    Flatten([i \in 1..Len(MatchDates) |->
                match_one_day(MatchDates[i], clean[<<"a", MatchDates[i]>>],
                              clean[<<"b", MatchDates[i]>>])])

MatchMain(force) ==
    /\ UNCHANGED <<clean, views>>
    /\ IF fact.kind # "none" /\ ~force
       THEN UNCHANGED fact /\ Stage("02_match.py", 0)
       ELSE IF MatchDates = << >>
       THEN UNCHANGED fact /\ Stage("02_match.py", 0)
       ELSE IF MatchRaises
       THEN UNCHANGED fact /\ Stage("02_match.py", 1)
       ELSE /\ fact' = FactTable(FALSE, drop_duplicates(MatchParts))
            /\ Stage("02_match.py", 0)

\* A Rule Engine that does not look for the file.
RulesFactNeverMissing == FALSE

\* not FACT_ORDERS_FILE.exists()
RulesFactMissing == fact.kind = "none"

\* write_fails: the environment makes to_parquet fail part-way (disk full,
\* process killed); the file was opened for writing in place.
RulesMain(write_fails) ==
    /\ UNCHANGED <<clean, views>>
    /\ IF RulesFactMissing
       THEN UNCHANGED fact /\ Stage("03_rules.py", 1)
       ELSE IF fact.kind = "damaged"
       THEN UNCHANGED fact /\ Stage("03_rules.py", 1)
       ELSE IF write_fails
       THEN fact' = DamagedFact /\ Stage("03_rules.py", 1)
       ELSE /\ fact' = FactTable(TRUE, apply_rules(fact.rows))
            /\ Stage("03_rules.py", 0)

\* fail_at = 0: every write succeeds.  fail_at = n > 0: the environment
\* refuses the n-th write (the CSV is locked by a reader, the disk is full)
\* and main ends with the exception.
AggregateMain(fail_at) ==
    /\ UNCHANGED <<clean, fact>>
    /\ IF fact.kind # "data"
       THEN UNCHANGED views /\ Stage("04_aggregate.py", 1)
       ELSE /\ views' = [v \in ViewNames |->
                            IF \E i \in 1..Len(ViewOrder) :
                                   ViewOrder[i] = v /\ (fail_at = 0 \/ i < fail_at)
                            THEN BuildView(v, fact)
                            ELSE views[v]]
            /\ Stage("04_aggregate.py", IF fail_at = 0 THEN 0 ELSE 1)

(***************************************************************************)
(* run_daily_pipeline.py                                                   *)
(***************************************************************************)
\* Bound on the pipeline runs of one behaviour.
MaxRuns == 2

\* A _run that ignores the return code.
_run_never_raises(returncode) == FALSE

\* _run raises RuntimeError on a non-zero return code.
_run_raises(returncode) == returncode # 0

StartPipeline ==
    /\ pipeline # "running"
    /\ runs < MaxRuns
    /\ pipeline' = "running"
    /\ pc' = 1
    /\ started' = << >>
    /\ runs' = runs + 1
    /\ UNCHANGED <<clean, fact, views, last, pre>>

\* The bookkeeping of the for loop of main after subprocess.run returned.
AfterStep ==
    /\ started' = Append(started, [step |-> STEPS[pc], rc |-> last'.rc])
    /\ runs' = runs
    /\ IF _run_raises(last'.rc)
       THEN pipeline' = "failed" /\ pc' = pc
       ELSE IF pc = Len(STEPS)
       THEN pipeline' = "success" /\ pc' = pc
       ELSE pipeline' = "running" /\ pc' = pc + 1

Running(step) == pipeline = "running" /\ STEPS[pc] = step

(***************************************************************************)
(* The stages run by hand and by the orchestrator                          *)
(***************************************************************************)
Idle == pipeline # "running"

Ingest(RawFolders) ==
    /\ Idle
    /\ \E force \in BOOLEAN, raw \in RawFolders : IngestMain(force, raw)
    /\ UNCHANGED orch

Match ==
    /\ Idle
    /\ \E force \in BOOLEAN : MatchMain(force)
    /\ UNCHANGED orch

Rules ==
    /\ Idle
    /\ \E write_fails \in BOOLEAN : RulesMain(write_fails)
    /\ UNCHANGED orch

Aggregate ==
    /\ Idle
    /\ \E fail_at \in 0..Len(ViewOrder) : AggregateMain(fail_at)
    /\ UNCHANGED orch

\* The same stages with every write succeeding.
RulesOk == Idle /\ RulesMain(FALSE) /\ UNCHANGED orch
AggregateOk == Idle /\ AggregateMain(0) /\ UNCHANGED orch

\* The orchestrator passes --force to every step.
StepIngest(RawFolders) ==
    /\ Running("01_ingest.py")
    /\ \E raw \in RawFolders : IngestMain(TRUE, raw)
    /\ AfterStep

StepMatch ==
    /\ Running("02_match.py")
    /\ MatchMain(TRUE)
    /\ AfterStep

StepRules ==
    /\ Running("03_rules.py")
    /\ \E write_fails \in BOOLEAN : RulesMain(write_fails)
    /\ AfterStep

StepAggregate ==
    /\ Running("04_aggregate.py")
    /\ \E fail_at \in 0..Len(ViewOrder) : AggregateMain(fail_at)
    /\ AfterStep

(***************************************************************************)
(* Inputs                                                                  *)
(***************************************************************************)
Rec(k, st, su, up, tv) ==
    [cart_id |-> k, status |-> st, substatus |-> su, updated_at |-> up,
     total_value |-> tv]

\* The instant `ticks` ticks before midnight of the day `date` names.
Before(date, ticks) == <<ToDatetimeDate(date)[1] - ticks>>

ColsA == {"cart_id", "status", "substatus", "updated_at", "total_value"}
ColsB == {"cart_id", "status", "substatus", "updated_at", "total_value"}
\* Instance B dumps may not contain statuses (config.py).
ColsBPlain == {"cart_id", "updated_at", "total_value"}

\* Bound on the records of one input file.
MaxRecs == 2

\* Tables of at most MaxRecs records drawn from recs.
RECURSIVE SeqsUpTo(_, _)
SeqsUpTo(recs, n) ==
    IF n = 0 THEN {<< >>}
    ELSE LET shorter == SeqsUpTo(recs, n - 1)
         IN  shorter \cup {Append(s, r) : s \in {t \in shorter : Len(t) = n - 1},
                                          r \in recs}

Tables(cols, recs) == {DataFile(cols, s) : s \in SeqsUpTo(recs, MaxRecs)}

InitRest ==
    /\ fact = NoFact
    /\ views = [v \in ViewNames |-> NoView]
    /\ last = [stage |-> "none", rc |-> 0]
    /\ pre = [clean |-> clean, fact |-> NoFact,
              views |-> [v \in ViewNames |-> NoView]]
    /\ pipeline = "idle"
    /\ pc = 1
    /\ started = << >>
    /\ runs = 0

(***************************************************************************)
(* Spec: the orchestrated pipeline over one day's dumps.                   *)
(***************************************************************************)
C100a == Rec("C100", "In PO Creation", "On Hold", Before(D1, 6 * TicksPerDay), "100.00")
C100b == Rec("C100", NA, NA, Before(D1, 6 * TicksPerDay), "100.02")

PipeFile(s) ==
    IF s = "a" THEN DataFile(ColsA, <<C100a>>) ELSE DataFile(ColsBPlain, <<C100b>>)

\* A dump with no updated_at column: ingest rejects it.
PipeFileShort(s) == DataFile({"cart_id"}, <<Rec("C100", NA, NA, NaT, NA)>>)

PipeClean ==
    {f \in [Slots -> {NoFile, BadFile, PipeFile("a"), PipeFile("b")}] :
        \A sl \in Slots :
            /\ sl[2] # D1 => f[sl] = NoFile
            /\ f[sl].kind = "data" => f[sl] = PipeFile(sl[1])}

PipeRaw ==
    {f \in [Slots -> {NoFile, BadFile, PipeFile("a"), PipeFile("b"),
                      PipeFileShort("a")}] :
        \A sl \in Slots :
            /\ sl[2] # D1 => f[sl] = NoFile
            /\ f[sl].kind = "data" => f[sl] \in {PipeFile(sl[1]), PipeFileShort(sl[1])}}

Init == clean \in PipeClean /\ InitRest

Next ==
    \/ StartPipeline
    \/ StepIngest(PipeRaw)
    \/ StepMatch
    \/ StepRules
    \/ StepAggregate

Spec == Init /\ [][Next]_vars

\* C5: a pipeline run starts the steps in the order of STEPS, each at most
\* once; a step that exits non-zero is the last step of its run, and the run
\* then has failed; a run reports success only after all four steps.
C5_FixedOrderStopOnFailure ==
    /\ Len(started) <= Len(STEPS)
    /\ \A i \in 1..Len(started) : started[i].step = STEPS[i]
    /\ \A i \in 1..Len(started) :
           started[i].rc # 0 => i = Len(started) /\ pipeline = "failed"
    /\ pipeline = "success" => Len(started) = Len(STEPS)
    /\ pipeline = "failed" => Len(started) > 0 /\ started[Len(started)].rc # 0

\* A run that the Matcher's failure stopped before the Rule Engine.
C5_Witness ==
    /\ pipeline = "failed"
    /\ Len(started) = 2
    /\ started[2].rc # 0

(***************************************************************************)
(* SpecStages: Matcher, Rule Engine and Aggregator run by hand, in any     *)
(* order, over the clean files of two days.                                *)
(***************************************************************************)
StageClean ==
    {f \in [Slots -> {NoFile, BadFile, PipeFile("a"), PipeFile("b")}] :
        \A sl \in Slots :
            /\ sl[2] = D3 => f[sl] = NoFile
            /\ f[sl].kind = "data" => f[sl] = PipeFile(sl[1])}

InitStages == clean \in StageClean /\ InitRest

NextStages ==
    \/ Match
    \/ Rules
    \/ Aggregate

SpecStages == InitStages /\ [][NextStages]_vars

\* The dates whose files the Matcher can read and that hold a record.
ReadableDates ==
    {d \in DateNames :
        /\ \A s \in Sources : clean[<<s, d>>].kind # "bad"
        /\ \E s \in Sources : clean[<<s, d>>].recs # << >>}

\* C3: a Matcher build that meets an unreadable file for one date still ends
\* normally and writes the Fact Rows of every other date.
C3_BadFileIsSkipped ==
    (/\ last.stage = "02_match.py"
     /\ pre.fact.kind = "none"
     /\ MatchRaises
     /\ ReadableDates # {})
    => /\ last.rc = 0
       /\ fact.kind = "data"
       /\ ReadableDates \subseteq DatesOf(fact.rows)

\* C4: a Rule Engine or Aggregator run that fails leaves every artifact that
\* existed before it exactly as it was.
C4_FailedStageLeavesArtifacts ==
    (last.stage \in {"03_rules.py", "04_aggregate.py"} /\ last.rc # 0)
    => /\ pre.fact.kind # "none" => fact = pre.fact
       /\ \A v \in ViewNames : pre.views[v].kind # "none" => views[v] = pre.views[v]

\* C6: the Rule Engine run without a fact table exits non-zero, creates no
\* fact table and changes no clean file and no view.
C6_RulesWithoutFactTable ==
    (last.stage = "03_rules.py" /\ pre.fact.kind = "none")
    => /\ last.rc # 0
       /\ fact = NoFact
       /\ views = pre.views
       /\ clean = pre.clean

\* The Rule Engine has run where clean files, but no fact table, exist.
C6_Witness ==
    /\ last.stage = "03_rules.py"
    /\ pre.fact.kind = "none"
    /\ \E sl \in Slots : clean[sl].kind = "data"

(***************************************************************************)
(* SpecMatch: the Matcher over every pair of tables of at most MaxRecs     *)
(* records for one day, with or without a second day.  Keys come padded    *)
(* and bare, twice in one table, on one side and on both; statuses and     *)
(* values agree, differ, or are missing.                                   *)
(***************************************************************************)
Noon == Before(D1, TicksPerDay)

MatchRecsA ==
    {Rec("C1", "Completed", "Provider PO Assigned", Noon, "100.00"),
     Rec(" C1 ", "Cancelled", "Cancelled ~ Synchronized", NaT, "100.02"),
     Rec("C2", "In PO Creation", "On Hold", Noon, "n/a")}

MatchRecsB ==
    {Rec("C1", "Completed", "Provider PO Assigned", Noon, "100.00"),
     Rec("C1 ", "Completed", "Missing PO Copy", NaT, NA),
     Rec("C3", NA, "Creating", Noon, "250")}

\* The same records in a dump that has no status columns.
Plain(r) == [r EXCEPT !.status = NA, !.substatus = NA]

MatchFilesA == {NoFile} \cup Tables(ColsA, MatchRecsA)
MatchFilesB ==
    {NoFile} \cup Tables(ColsB, MatchRecsB)
             \cup Tables(ColsBPlain, {Plain(r) : r \in MatchRecsB})

SecondDayA == DataFile(ColsA, <<Rec("C1", "Completed", "Unequal Values", Noon, "7.5")>>)
SecondDayB == DataFile(ColsBPlain, <<Rec("C2", NA, NA, Noon, "7.50")>>)

MatchClean ==
    {[sl \in Slots |->
         IF sl = <<"a", D1>> THEN fa
         ELSE IF sl = <<"b", D1>> THEN fb
         ELSE IF sl[2] = D2 /\ second THEN (IF sl[1] = "a" THEN SecondDayA ELSE SecondDayB)
         ELSE NoFile] :
     fa \in MatchFilesA, fb \in MatchFilesB, second \in BOOLEAN}

InitMatch == clean \in MatchClean /\ InitRest

NextMatch == Match

SpecMatch == InitMatch /\ [][NextMatch]_vars

\* A key without the blanks around it: from its first to its last character
\* that is no blank.
Trimmed(k) ==
    LET inked == {i \in 1..Len(k) : CharAt(k, i) # " "}
    IN  IF inked = {} THEN ""
        ELSE SubSeq(k, CHOOSE i \in inked : \A j \in inked : i <= j,
                       CHOOSE i \in inked : \A j \in inked : i >= j)

\* The trimmed business keys of a clean file.
TrimmedKeys(file) == {Trimmed(file.recs[i].cart_id) : i \in 1..Len(file.recs)}
RawKeys(file) == {file.recs[i].cart_id : i \in 1..Len(file.recs)}

RowsOf(date) == SelectSeq(fact.rows, LAMBDA r : r.snapshot_date = date)

BSideEmpty(r) ==
    r.status_b = NA /\ r.substatus_b = NA /\ r.updated_at_b = NaT /\ r.total_value_b = NA
ASideEmpty(r) ==
    r.status_a = NA /\ r.substatus_a = NA /\ r.updated_at_a = NaT /\ r.total_value_a = NA

\* C1: the fact table the Matcher wrote holds, for every date, exactly one
\* row per distinct trimmed key of the union of the two tables of that date;
\* a key of A only has exists_in_a, not exists_in_b, and empty B fields, and
\* a key of B only the converse.
C1_OuterJoinComplete ==
    fact.kind = "data" =>
        \A d \in DateNames :
            LET ka == TrimmedKeys(clean[<<"a", d>>])
                kb == TrimmedKeys(clean[<<"b", d>>])
                rs == RowsOf(d)
            IN  /\ Len(rs) = Cardinality(ka \cup kb)
                /\ {rs[i].cart_id : i \in 1..Len(rs)} = ka \cup kb
                /\ \A i \in 1..Len(rs) :
                       /\ rs[i].cart_id \in ka \ kb =>
                              /\ rs[i].exists_in_a = True3
                              /\ rs[i].exists_in_b = False3
                              /\ BSideEmpty(rs[i])
                       /\ rs[i].cart_id \in kb \ ka =>
                              /\ rs[i].exists_in_b = True3
                              /\ rs[i].exists_in_a = False3
                              /\ ASideEmpty(rs[i])
                       /\ rs[i].cart_id \in ka \cap kb =>
                              /\ rs[i].exists_in_a = True3
                              /\ rs[i].exists_in_b = True3

\* A build from a day where A has a key padded and bare, a key of its own,
\* and B has a key of its own.
C1_Witness ==
    /\ fact.kind = "data"
    /\ LET fa == clean[<<"a", D1>>]
           fb == clean[<<"b", D1>>]
       IN  /\ Cardinality(RawKeys(fa) \cup RawKeys(fb))
                  > Cardinality(TrimmedKeys(fa) \cup TrimmedKeys(fb))
           /\ TrimmedKeys(fa) \ TrimmedKeys(fb) # {}
           /\ TrimmedKeys(fb) \ TrimmedKeys(fa) # {}

SamePair(r1, r2) == r1.snapshot_date = r2.snapshot_date /\ r1.cart_id = r2.cart_id

\* C2: the written fact table has at most one row per (snapshot_date,
\* business key), and each row is the last one the build computed for its
\* pair; no computed pair is lost.
C2_UniqueLastWins ==
    fact.kind = "data" =>
        LET parts == MatchParts
            rows  == fact.rows
        IN  /\ \A i, j \in 1..Len(rows) : SamePair(rows[i], rows[j]) => i = j
            /\ \A i \in 1..Len(rows) :
                   \E n \in 1..Len(parts) :
                       /\ parts[n] = rows[i]
                       /\ \A m \in (n + 1)..Len(parts) : ~SamePair(parts[m], rows[i])
            /\ \A n \in 1..Len(parts) :
                   \E i \in 1..Len(rows) : SamePair(parts[n], rows[i])

\* A build that computed two different rows for one pair.
C2_Witness ==
    /\ fact.kind = "data"
    /\ LET parts == MatchParts
       IN  \E n, m \in 1..Len(parts) :
               /\ n < m
               /\ SamePair(parts[n], parts[m])
               /\ parts[n] # parts[m]

MismatchFlags == {"status_mismatch", "substatus_mismatch", "value_mismatch", "any_mismatch"}

\* C7: in every row the Matcher wrote, a mismatch flag that is true implies
\* that the row exists in A and in B.
C7_MismatchOnlyWhenBoth ==
    fact.kind = "data" =>
        \A i \in 1..Len(fact.rows) : \A c \in MismatchFlags :
            fact.rows[i][c] = True3 =>
                fact.rows[i].exists_in_a = True3 /\ fact.rows[i].exists_in_b = True3

\* A table with a one-sided row that carries a status and a value, and a
\* two-sided row whose values differ.
C7_Witness ==
    /\ fact.kind = "data"
    /\ \E i \in 1..Len(fact.rows) :
           /\ fact.rows[i].exists_in_b = False3
           /\ fact.rows[i].status_a # NA
           /\ ToNumeric(fact.rows[i].total_value_a) # NaN
    /\ \E i \in 1..Len(fact.rows) :
           /\ fact.rows[i].value_mismatch = True3
           /\ fact.rows[i].status_mismatch = True3

(***************************************************************************)
(* SpecRules: Matcher and Rule Engine over one cart reported on one, two   *)
(* or three days.  Source A reports it with every status/substatus pair of *)
(* the rules (in several spellings), with an unknown status, an unknown    *)
(* substatus and no status, updated 31 days, exactly 30 days, just over 4  *)
(* days, exactly 4 days before D1, or never; source B is silent, agrees or *)
(* differs.                                                                *)
(***************************************************************************)
RulePairs ==
    {<<"In Preparation", "On Hold">>,
     <<"In PO Creation", "On Hold">>,
     <<" in  po creation ", "ERROR">>,
     <<"Completed", "Missing PO Copy">>,
     <<"Completed", "Unequal Values">>,
     <<"Cancelled", "Cancelled ~ Unsynchronized">>,
     <<"Cancelled", "Cancelled - Synchronized">>,
     <<"Completed", "Provider PO Assigned">>,
     <<"Shipped", "On Hold">>,
     <<"Completed", "On Hold">>,
     <<NA, "On Hold">>,
     <<NA, NA>>}

RuleUpdates ==
    {NaT, Before(D1, 31 * TicksPerDay), Before(D1, 30 * TicksPerDay),
     Before(D1, 4 * TicksPerDay + 1), Before(D1, 4 * TicksPerDay)}

RuleFilesA ==
    {NoFile} \cup {DataFile(ColsA, <<Rec("C1", p[1], p[2], u, "100.00")>>) :
                   p \in RulePairs, u \in RuleUpdates}

RuleFilesB ==
    {NoFile,
     DataFile(ColsB, <<Rec("C1", "Completed", "Provider PO Assigned",
                           Before(D1, 10 * TicksPerDay), "100.00")>>),
     DataFile(ColsBPlain, <<Rec("C1", NA, NA, NaT, "100.00")>>)}

RuleClean ==
    {[sl \in Slots |-> IF sl[2] \in days THEN (IF sl[1] = "a" THEN fa ELSE fb) ELSE NoFile] :
     fa \in RuleFilesA, fb \in RuleFilesB, days \in (SUBSET DateNames) \ {{}}}

InitRules == clean \in RuleClean /\ InitRest

NextRules ==
    \/ Match
    \/ RulesOk

SpecRules == InitRules /\ [][NextRules]_vars

HardCols == {hard_issue_cols[i] : i \in 1..Len(hard_issue_cols)}

\* C8: after the Rule Engine, in every row has_issue is hard_issue OR
\* warning, and hard_issue is true exactly when one of the six hard
\* predicates is true (an <NA> predicate is not true).
C8_RollUps ==
    (fact.kind = "data" /\ fact.rule_cols) =>
        \A i \in 1..Len(fact.rows) :
            LET r == fact.rows[i]
            IN  /\ r.hard_issue \in {True3, False3}
                /\ r.warning \in {True3, False3}
                /\ r.has_issue = Bool3(r.hard_issue = True3 \/ r.warning = True3)
                /\ r.hard_issue = True3 <=> \E c \in HardCols : r[c] = True3

\* An annotated row, present in B only, whose hard predicates are <NA> or
\* false: no hard issue, a warning, and so an issue.
C8_Witness ==
    /\ fact.kind = "data" /\ fact.rule_cols
    /\ \E i \in 1..Len(fact.rows) :
           /\ \E c \in HardCols : fact.rows[i][c] = NA3
           /\ fact.rows[i].hard_issue = False3
           /\ fact.rows[i].warning = True3
           /\ fact.rows[i].has_issue = True3

\* C9: a Rule Engine run on the table a Rule Engine run wrote leaves every
\* derived column of every row as it was (and adds or drops no row).
C9_RulesIdempotent ==
    (/\ last.stage = "03_rules.py" /\ last.rc = 0
     /\ pre.fact.kind = "data" /\ pre.fact.rule_cols)
    => /\ Len(fact.rows) = Len(pre.fact.rows)
       /\ \A i \in 1..Len(fact.rows) : \A c \in DerivedCols :
              fact.rows[i][c] = pre.fact.rows[i][c]

\* The second run has happened on a table with issues of both kinds.
C9_Witness ==
    /\ last.stage = "03_rules.py" /\ last.rc = 0
    /\ pre.fact.kind = "data" /\ pre.fact.rule_cols
    /\ \E i \in 1..Len(fact.rows) :
           fact.rows[i].hard_issue = True3 /\ fact.rows[i].warning = False3
    /\ \E i \in 1..Len(fact.rows) : fact.rows[i].age_days # NaN

\* The update timestamp the age counts from: A's when A has one, else B's.
KnownUpdate(r) == IF r.updated_at_a # NaT THEN r.updated_at_a ELSE r.updated_at_b

IsCalendarDate(s) == ToDatetimeDate(s) # NaT

AgeFromUpdate(r) ==
    r.age_days = IF KnownUpdate(r) = NaT THEN NaN
                 ELSE <<ToDatetimeDate(r.snapshot_date)[1] - KnownUpdate(r)[1]>>

AgeMonotone(r1, r2) ==
    (/\ KnownUpdate(r1) # NaT
     /\ KnownUpdate(r1) = KnownUpdate(r2)
     /\ IsCalendarDate(r1.snapshot_date) /\ IsCalendarDate(r2.snapshot_date)
     /\ ToDatetimeDate(r1.snapshot_date)[1] <= ToDatetimeDate(r2.snapshot_date)[1])
    => r1.age_days # NaN /\ r2.age_days # NaN /\ r1.age_days[1] <= r2.age_days[1]

\* C10: in every annotated row the age is undefined exactly when both sides
\* lack an update timestamp; a row with a timestamp has an age.
C10_AgeOfEveryRow ==
    (fact.kind = "data" /\ fact.rule_cols) =>
        \A i \in 1..Len(fact.rows) :
            LET r == fact.rows[i]
            IN  r.age_days = NaN <=> KnownUpdate(r) = NaT

\* What compute_age_days gives: for a row whose snapshot_date names a calendar
\* day, the age counts from that day back to A's timestamp, or B's when A has
\* none, and is non-decreasing in the snapshot date for a fixed timestamp; a
\* row whose snapshot_date names no day has no age, whatever its timestamps.
AgeOfDatedRows ==
    (fact.kind = "data" /\ fact.rule_cols) =>
        /\ \A i \in 1..Len(fact.rows) :
               LET r == fact.rows[i]
               IN  IF IsCalendarDate(r.snapshot_date)
                   THEN /\ AgeFromUpdate(r)
                        /\ r.age_days = NaN <=> KnownUpdate(r) = NaT
                   ELSE r.age_days = NaN
        /\ \A i, j \in 1..Len(fact.rows) : AgeMonotone(fact.rows[i], fact.rows[j])

\* The same cart on two days: A without a timestamp and B with one.
AgeOfDatedRows_Witness ==
    /\ fact.kind = "data" /\ fact.rule_cols
    /\ \E i, j \in 1..Len(fact.rows) :
           /\ fact.rows[i].snapshot_date = D1 /\ fact.rows[j].snapshot_date = D2
           /\ fact.rows[i].updated_at_a = NaT /\ fact.rows[i].updated_at_b # NaT
           /\ fact.rows[i].age_days # NaN
           /\ fact.rows[j].age_days[1] > fact.rows[i].age_days[1]

(***************************************************************************)
(* SpecViews: Matcher, Rule Engine and Aggregator, every write succeeding. *)
(* The views are built from tables with and without the Rule Engine's      *)
(* columns, with one-sided rows, rows that agree and rows that differ, and *)
(* a second day that both sources, one source or no source reports.        *)
(***************************************************************************)
ViewRecsA ==
    {Rec("C1", "Completed", "Provider PO Assigned", Noon, "100.00"),
     Rec(" C1 ", "Cancelled", "Cancelled ~ Synchronized", NaT, "100.02")}

ViewRecsB ==
    {Rec("C1", "Completed", "Provider PO Assigned", Noon, "100.00"),
     Rec("C3", NA, "Creating", Noon, "250")}

\* The tables of MaxRecs records.
FullTables(cols, recs) == {f \in Tables(cols, recs) : Len(f.recs) = MaxRecs}

ViewClean ==
    {[sl \in Slots |->
         IF sl = <<"a", D1>> THEN fa
         ELSE IF sl = <<"b", D1>> THEN fb
         ELSE IF sl = <<"a", D2>> /\ "a" \in second THEN SecondDayA
         ELSE IF sl = <<"b", D2>> /\ "b" \in second THEN SecondDayB
         ELSE NoFile] :
     fa \in {NoFile} \cup FullTables(ColsA, ViewRecsA),
     fb \in {NoFile} \cup FullTables(ColsB, ViewRecsB),
     second \in SUBSET Sources}

InitViews == clean \in ViewClean /\ InitRest

NextViews ==
    \/ Match
    \/ RulesOk
    \/ AggregateOk

SpecViews == InitViews /\ [][NextViews]_vars

RateNames ==
    {"issue_rate", "hard_issue_rate", "warning_rate", "mismatch_rate",
     "missing_in_b_rate"}

\* The count a rate of the Daily KPI view divides by.
Denominator(k, rate) == IF rate = "missing_in_b_rate" THEN k.orders_a ELSE k.rows

\* C11: every rate of every row of the Daily KPI view is a number between 0
\* and 1, and a rate whose denominator is zero is exactly 0.
C11_RatesSafe ==
    views["PBI_DAILY_KPIS"].kind = "data" =>
        \A i \in 1..Len(views["PBI_DAILY_KPIS"].rows) :
            LET k == views["PBI_DAILY_KPIS"].rows[i]
            IN  \A rate \in RateNames :
                    /\ k[rate][2] > 0
                    /\ 0 <= k[rate][1] /\ k[rate][1] <= k[rate][2]
                    /\ Denominator(k, rate) = 0 => k[rate][1] = 0

\* A day only source B reports (no order of A to divide by) next to a day
\* where some, not all, rows have an issue.
C11_Witness ==
    /\ views["PBI_DAILY_KPIS"].kind = "data"
    /\ \E i, j \in 1..Len(views["PBI_DAILY_KPIS"].rows) :
           LET k == views["PBI_DAILY_KPIS"].rows[i]
               m == views["PBI_DAILY_KPIS"].rows[j]
           IN  /\ k.orders_a = 0 /\ k.rows > 0
               /\ 0 < m.issue_rate[1] /\ m.issue_rate[1] < m.issue_rate[2]

\* The Aggregator has just written the views from the fact table.
ViewsFresh == last.stage = "04_aggregate.py" /\ last.rc = 0 /\ fact.kind = "data"

\* A flag of a row is set: the row has the column and the cell is True.
FlagSet(r, c) == c \in DOMAIN r /\ r[c] = True3

OnlyInA(r) == r.exists_in_a = True3 /\ r.exists_in_b = False3
OnlyInB(r) == r.exists_in_a = False3 /\ r.exists_in_b = True3

\* The row is to be reported as a case.
Qualifies(r) ==
    FlagSet(r, "has_issue") \/ FlagSet(r, "any_mismatch") \/ OnlyInA(r) \/ OnlyInB(r)

\* The rule and mismatch flags a reasons field may name.
ReasonFlags ==
    HardCols \cup {"cancelled_synchronized", "unknown_status_or_substatus",
                   "status_mismatch", "substatus_mismatch", "value_mismatch"}

\* The names a comma-joined field lists.
RECURSIVE SplitComma(_)
SplitComma(s) ==
    IF s = "" THEN << >>
    ELSE LET commas == {i \in 1..Len(s) : CharAt(s, i) = ","}
         IN  IF commas = {} THEN <<s>>
             ELSE LET i == CHOOSE c \in commas : \A d \in commas : c <= d
                  IN  <<SubSeq(s, 1, i - 1)>> \o SplitComma(SubSeq(s, i + 1, Len(s)))

SameRow(c, r) == c.snapshot_date = r.snapshot_date /\ c.cart_id = r.cart_id

\* The case is the report of the row: its type, and in reasons each set flag
\* once, then the token of the missing side.
CaseOf(c, r) ==
    LET names == SplitComma(c.reasons)
        token == IF OnlyInA(r) THEN <<"missing_in_b">>
                 ELSE IF OnlyInB(r) THEN <<"missing_in_a">> ELSE << >>
        flags == SubSeq(names, 1, Len(names) - Len(token))
    IN  /\ c.case_type = IF FlagSet(r, "hard_issue") THEN "hard" ELSE "warning"
        /\ Len(names) >= Len(token)
        /\ SubSeq(names, Len(names) - Len(token) + 1, Len(names)) = token
        /\ {flags[i] : i \in 1..Len(flags)} = {f \in ReasonFlags : FlagSet(r, f)}
        /\ \A i, j \in 1..Len(flags) : flags[i] = flags[j] => i = j

\* C12: the Issue-Case view holds one case for every row with has_issue,
\* any_mismatch or one side missing, and none for another row; a case is
\* "hard" when hard_issue is set and "warning" otherwise, and its reasons
\* name every set rule and mismatch flag, then the missing side; a flag
\* whose cell is missing is not named.
C12_IssueCases ==
    ViewsFresh =>
        LET cases == views["PBI_ISSUE_CASES"].rows
            rows  == fact.rows
        IN  /\ \A i \in 1..Len(rows) :
                   Cardinality({j \in 1..Len(cases) : SameRow(cases[j], rows[i])})
                       = IF Qualifies(rows[i]) THEN 1 ELSE 0
            /\ \A j \in 1..Len(cases) :
                   \E i \in 1..Len(rows) :
                       SameRow(cases[j], rows[i]) /\ CaseOf(cases[j], rows[i])

\* Views of an annotated table with a hard case, a one-sided case whose
\* rule flags are missing, a case with two reasons, and a row that is no
\* case.
C12_Witness ==
    /\ ViewsFresh /\ fact.rule_cols
    /\ \E j \in 1..Len(views["PBI_ISSUE_CASES"].rows) :
           views["PBI_ISSUE_CASES"].rows[j].case_type = "hard"
    /\ \E i \in 1..Len(fact.rows) :
           /\ OnlyInB(fact.rows[i])
           /\ fact.rows[i].completed_missing_po_copy = NA3
    /\ \E j \in 1..Len(views["PBI_ISSUE_CASES"].rows) :
           Len(SplitComma(views["PBI_ISSUE_CASES"].rows[j].reasons)) >= 2
    /\ \E i \in 1..Len(fact.rows) : ~Qualifies(fact.rows[i])

\* The positions of the records of a clean file that carry the key.
RecordsOf(file, key) == {i \in 1..Len(file.recs) : Trimmed(file.recs[i].cart_id) = key}

\* The last record of the file with the key.
LastRecord(file, key) ==
    file.recs[CHOOSE i \in RecordsOf(file, key) : \A j \in RecordsOf(file, key) : j <= i]

\* The row carries the fields of the record on side A, or on side B.
CarriesA(r, rec) ==
    /\ r.exists_in_a = True3
    /\ r.status_a = rec.status /\ r.substatus_a = rec.substatus
    /\ r.updated_at_a = rec.updated_at /\ r.total_value_a = rec.total_value

CarriesB(r, rec) ==
    /\ r.exists_in_b = True3
    /\ r.status_b = rec.status /\ r.substatus_b = rec.substatus
    /\ r.updated_at_b = rec.updated_at /\ r.total_value_b = rec.total_value

\* C13: for every key of a source's file of a day, however often the file
\* repeats it, the fact table holds exactly one row of that day and key,
\* and the row carries the fields of the file's last record with the key.
C13_DuplicateKeysLastWins ==
    fact.kind = "data" =>
        \A d \in DateNames, s \in Sources :
            \A key \in TrimmedKeys(clean[<<s, d>>]) :
                LET rows == {i \in 1..Len(fact.rows) :
                                /\ fact.rows[i].snapshot_date = d
                                /\ fact.rows[i].cart_id = key}
                    rec  == LastRecord(clean[<<s, d>>], key)
                IN  /\ Cardinality(rows) = 1
                    /\ \A i \in rows :
                           IF s = "a" THEN CarriesA(fact.rows[i], rec)
                           ELSE CarriesB(fact.rows[i], rec)

\* A built table where both files of a day repeat a key with other fields.
C13_Witness ==
    /\ fact.kind = "data"
    /\ \A s \in Sources :
           \E key \in TrimmedKeys(clean[<<s, D1>>]) :
               /\ Cardinality(RecordsOf(clean[<<s, D1>>], key)) = 2
               /\ \E i, j \in RecordsOf(clean[<<s, D1>>], key) :
                      clean[<<s, D1>>].recs[i].substatus # clean[<<s, D1>>].recs[j].substatus
    /\ TrimmedKeys(clean[<<"a", D1>>]) = TrimmedKeys(clean[<<"b", D1>>])

\* The age-threshold rules: the flag, the normalized status and substatus
\* it is about, and its threshold in days.
AgeRules ==
    {<<"inprep_on_hold_gt_30d", "in preparation", "on hold", 30>>,
     <<"inpo_on_hold_gt_4d", "in po creation", "on hold", 4>>,
     <<"inpo_error_stuck_gt_4d", "in po creation", "error", 4>>}

\* The row is of the rule's status and substatus and older than its
\* threshold.
OverAge(r, rule) ==
    /\ _norm_str(r.status_a) = rule[2]
    /\ _norm_str(r.substatus_a) = rule[3]
    /\ r.age_days # NaN
    /\ r.age_days[1] > rule[4] * TicksPerDay

\* C14: in every annotated row an age-threshold rule is true exactly when
\* the normalized status and substatus of A are the rule's and the age is
\* defined and strictly above the threshold.
C14_AgeThresholds ==
    (fact.kind = "data" /\ fact.rule_cols) =>
        \A i \in 1..Len(fact.rows), rule \in AgeRules :
            fact.rows[i][rule[1]] = True3 <=> OverAge(fact.rows[i], rule)

\* One cart on hold in preparation on three days: 30 days old and not
\* flagged, 31 days old and flagged, and of no age and not flagged.
C14_Witness ==
    /\ fact.kind = "data" /\ fact.rule_cols
    /\ \E i, j, k \in 1..Len(fact.rows) :
           /\ fact.rows[i].age_days = <<30 * TicksPerDay>>
           /\ fact.rows[i].inprep_on_hold_gt_30d = False3
           /\ fact.rows[j].age_days = <<31 * TicksPerDay>>
           /\ fact.rows[j].inprep_on_hold_gt_30d = True3
           /\ fact.rows[k].age_days = NaN
           /\ fact.rows[k].updated_at_a # NaT
           /\ fact.rows[k].inprep_on_hold_gt_30d = False3
           /\ \A n \in {i, j, k} : _norm_str(fact.rows[n].status_a) = "in preparation"

InBoth(r) == r.exists_in_a = True3 /\ r.exists_in_b = True3

WarningCore ==
    {"cancelled_synchronized", "unknown_status_or_substatus", "status_mismatch",
     "substatus_mismatch", "value_mismatch"}

\* A row both sources report, with a status and substatus of the reference
\* vocabulary as config.py spells them, no mismatch, and not a synchronized
\* cancellation.
QuietRow(r) ==
    /\ InBoth(r)
    /\ r.status_a \in STATUSES
    /\ r.substatus_a \in SUBSTATUSES_BY_STATUS(r.status_a)
    /\ r.status_mismatch = False3 /\ r.substatus_mismatch = False3
    /\ r.value_mismatch = False3
    /\ ~(r.status_a = "Cancelled" /\ r.substatus_a = "Cancelled ~ Synchronized")

\* C15: in every annotated row warning is true exactly when one source
\* lacks the row, or both report it and one of cancelled_synchronized,
\* unknown_status_or_substatus and the three mismatch flags is true; a row
\* of both sources with a known status/substatus pair, no mismatch and no
\* synchronized cancellation has no warning.
C15_Warning ==
    (fact.kind = "data" /\ fact.rule_cols) =>
        \A i \in 1..Len(fact.rows) :
            LET r == fact.rows[i]
            IN  /\ r.warning \in {True3, False3}
                /\ r.warning = True3 <=>
                       \/ OnlyInA(r) \/ OnlyInB(r)
                       \/ (InBoth(r) /\ \E c \in WarningCore : r[c] = True3)
                /\ QuietRow(r) => r.warning = False3

\* Completed / Provider PO Assigned in both sources with equal values: no
\* hard issue, no warning, no issue.
C15_Witness ==
    /\ fact.kind = "data" /\ fact.rule_cols
    /\ \E i \in 1..Len(fact.rows) :
           LET r == fact.rows[i]
           IN  /\ QuietRow(r)
               /\ r.status_a = "Completed" /\ r.status_b = "Completed"
               /\ r.substatus_a = "Provider PO Assigned"
               /\ r.substatus_b = "Provider PO Assigned"
               /\ r.hard_issue = False3 /\ r.warning = False3
               /\ r.has_issue = False3

\* C16: every case of an Issue-Case view built from an annotated fact table
\* names at least one reason.
C16_ReasonsNotEmpty ==
    (ViewsFresh /\ fact.rule_cols) =>
        \A j \in 1..Len(views["PBI_ISSUE_CASES"].rows) :
            /\ views["PBI_ISSUE_CASES"].rows[j].reasons # ""
            /\ SplitComma(views["PBI_ISSUE_CASES"].rows[j].reasons) # << >>

\* Cases of an annotated table: one whose only reason is the missing side,
\* one that a rule flag explains.
C16_Witness ==
    /\ ViewsFresh /\ fact.rule_cols
    /\ \E j, k \in 1..Len(views["PBI_ISSUE_CASES"].rows) :
           /\ views["PBI_ISSUE_CASES"].rows[j].reasons = "missing_in_b"
           /\ views["PBI_ISSUE_CASES"].rows[k].case_type = "hard"
           /\ Len(SplitComma(views["PBI_ISSUE_CASES"].rows[k].reasons)) >= 2

(***************************************************************************)
(* SpecLeftover: the orchestrated pipeline started on a data folder that   *)
(* may hold the fact table of an earlier, completed run, and clean files   *)
(* or none.                                                                *)
(***************************************************************************)
\* The annotated fact table a completed run over the dumps of D1 left.
LeftoverFact ==
    FactTable(TRUE,
        apply_rules(drop_duplicates(match_one_day(D1, PipeFile("a"), PipeFile("b")))))

InitLeftover ==
    /\ clean \in PipeClean
    /\ fact \in {NoFact, LeftoverFact}
    /\ views = [v \in ViewNames |-> NoView]
    /\ last = [stage |-> "none", rc |-> 0]
    /\ pre = [clean |-> clean, fact |-> fact,
              views |-> [v \in ViewNames |-> NoView]]
    /\ pipeline = "idle"
    /\ pc = 1
    /\ started = << >>
    /\ runs = 0

NextLeftover ==
    \/ StartPipeline
    \/ StepIngest(PipeRaw)
    \/ StepMatch
    \/ StepRules
    \/ StepAggregate

SpecLeftover == InitLeftover /\ [][NextLeftover]_vars

\* The row comes from a clean file that is there: a file of the row's day
\* holds a record with the row's key.
FromCleanInput(r) ==
    \E s \in Sources :
        /\ clean[<<s, r.snapshot_date>>].kind = "data"
        /\ r.cart_id \in TrimmedKeys(clean[<<s, r.snapshot_date>>])

\* C17: when a pipeline run has finished successfully, the fact table its
\* Rule Engine and Aggregator worked on is the one the Matcher of that run
\* built from the clean files then present: each of its rows comes from
\* such a file, and no table of an earlier run was used.
C17_SuccessUsesFreshFact ==
    pipeline = "success" =>
        /\ fact.kind = "data"
        /\ \A i \in 1..Len(fact.rows) : FromCleanInput(fact.rows[i])
        /\ \E sl \in Slots : clean[sl].kind = "data"

====
